---- MODULE Spec2Model ----
(***************************************************************************)
(* DermaVision AI backend (scripts/fastapi_backend.py).                    *)
(*                                                                         *)
(* The service is a stateless relay: GET / reports whether a credential    *)
(* is present, POST /analyze forwards an image to the vendor model and     *)
(* turns its free text into an AnalysisResponse, POST /analyze-upload      *)
(* re-encodes an uploaded file and delegates to POST /analyze.             *)
(*                                                                         *)
(* Conventions of the model                                                *)
(*  - Python numbers are exact rationals [n |-> numerator, d |-> positive   *)
(*    denominator] in lowest terms, so "sums to 1.0" is read in real       *)
(*    arithmetic (the floating-point rounding of the division is not       *)
(*    modelled).                                                           *)
(*  - Optional[T] is a set with at most one element: {} is None.           *)
(*  - A str built by concatenation is the sequence of its fragments.       *)
(*  - A dict is a function whose DOMAIN is its key set.                    *)
(*  - A raised exception is a result [exc |-> {name}, val |-> {}], a       *)
(*    normal return is [exc |-> {}, val |-> {value}].                      *)
(***************************************************************************)
EXTENDS Integers, Sequences, FiniteSets, TLC

VARIABLES
    env,       \* os.environ: the two credential variables, each Optional[str]
    genai,     \* TRUE iff `import google.generativeai` succeeded
    request,   \* the request being answered (endpoint and its inputs)
    vendor,    \* what was handed to model.generate_content, and what it did
    response,  \* Optional: the body returned by the last handler
    branch,    \* which return statement of the handler produced the response
    pure       \* a direct invocation of one of the two pure routines

vars == <<env, genai, request, vendor, response, branch, pure>>

----------------------------------------------------------------------------
(* Bounds of the model *)

\* tier values of the vendor JSON are the integers -1 .. MaxVal
MaxVal == 2
\* an uploaded file holds at most MaxFileLen bytes
MaxFileLen == 3

----------------------------------------------------------------------------
(* Python numbers as exact rationals *)

Abs(x) == IF x < 0 THEN -x ELSE x

RECURSIVE GCD(_, _)
GCD(a, b) == IF b = 0 THEN a ELSE GCD(b, a % b)

Rat(n, d) ==
    LET g == GCD(Abs(n), Abs(d))
        s == IF d < 0 THEN -1 ELSE 1
    IN  [n |-> (s * n) \div g, d |-> (s * d) \div g]

Num(k) == Rat(k, 1)

RatAdd(x, y) == Rat(x.n * y.d + y.n * x.d, x.d * y.d)

\* x / y, for y # 0
RatDiv(x, y) == Rat(x.n * y.d, x.d * y.n)

RatLeq(x, y) == x.n * y.d <= y.n * x.d

RatLt(x, y) == x.n * y.d < y.n * x.d

\* Python's min(a, b) and max(a, b): the first argument unless the second
\* is strictly smaller (larger)
PyMin(a, b) == IF RatLt(b, a) THEN b ELSE a

PyMax(a, b) == IF RatLt(a, b) THEN b ELSE a

\* the sum of the values of m at `keys`
RECURSIVE SumOver(_, _)
SumOver(m, keys) ==
    IF keys = {} THEN Num(0)
    ELSE LET k == CHOOSE x \in keys : TRUE
         IN  RatAdd(m[k], SumOver(m, keys \ {k}))

\* sum(m.values()) of a dict of numbers
PySum(m) == SumOver(m, DOMAIN m)

\* `total or 1`: a zero total is falsy and becomes 1
OrOne(total) == IF total.n = 0 THEN Num(1) ELSE total

\* `sum(m.values()) or 1`
SumOr1(m) == OrOne(PySum(m))

\* `for key in m: m[key] = m[key] / total`
DivideAll(m, total) == [k \in DOMAIN m |-> RatDiv(m[k], total)]

\* dict.get(key, default)
Get(d, key, default) == IF key \in DOMAIN d THEN d[key] ELSE default

Return(v) == [exc |-> {}, val |-> {v}]

Raise(e) == [exc |-> {e}, val |-> {}]

Raised(r) == r.exc # {}

ValueOf(r) == CHOOSE v \in r.val : TRUE

ExceptionOf(r) == CHOOSE e \in r.exc : TRUE

\* sequencing of statements: an exception raised by the first skips the rest
Bind(r, Rest(_)) == IF Raised(r) THEN r ELSE Rest(ValueOf(r))

\* try: r / except Exception as e: Handler(e)
Catch(r, Handler(_)) == IF Raised(r) THEN Handler(ExceptionOf(r)) ELSE r

----------------------------------------------------------------------------
(* Response models *)

Tier1Keys == {"fungal", "inflammatory", "normal", "malignant", "benign"}

Tier2Keys == {"melanoma", "bcc", "eczema", "atopicDermatitis",
              "melanocyticNevi", "bkl", "psoriasis", "seborrheicKeratoses",
              "tinea", "warts"}

DefaultDescription == "Analysis complete."

DefaultRecommendations ==
    <<"Consult a dermatologist for professional evaluation.">>

DefaultConfidence == Rat(7, 10)

----------------------------------------------------------------------------
(* parse_gemini_response *)

\* The vendor text is a sequence of tokens: prose (characters other than
\* braces that are not JSON), a lone "{", a lone "}", or the text of one
\* well-formed JSON object (which starts with "{" and ends with "}").
Prose == [t |-> "prose", doc |-> <<>>]

LBrace == [t |-> "{", doc |-> <<>>]

RBrace == [t |-> "}", doc |-> <<>>]

Obj(d) == [t |-> "obj", doc |-> d]

\* re.search(r'\{[\s\S]*\}', text): the span from the first "{" to the last
\* "}" of the text, None when no "}" follows the first "{"
re_search(text) ==
    LET opens  == {i \in 1..Len(text) : text[i].t \in {"{", "obj"}}
        closes == {i \in 1..Len(text) : text[i].t \in {"}", "obj"}}
    IN  IF opens = {} \/ closes = {} THEN {}
        ELSE LET i == CHOOSE x \in opens : \A y \in opens : x <= y
                 j == CHOOSE x \in closes : \A y \in closes : y <= x
             IN  IF i < j \/ (i = j /\ text[i].t = "obj")
                 THEN {SubSeq(text, i, j)}
                 ELSE {}

\* json.loads of a span that starts with "{" and ends with "}": the object
\* when the span is exactly one object ("{}" is the empty object), a
\* JSONDecodeError otherwise
json_loads(span) ==
    IF Len(span) = 1 /\ span[1].t = "obj" THEN Return(span[1].doc)
    ELSE IF Len(span) = 2 /\ span[1].t = "{" /\ span[2].t = "}"
         THEN Return(<<>>)
    ELSE Raise("JSONDecodeError")

\* a variant of NormalizeTier that leaves the values as the vendor gave them
NormalizeTierSkipped(tier) == tier

\* lines 155-159 and 161-165: one tier's normalisation
NormalizeTier(tier) == DivideAll(tier, SumOr1(tier))

\* a variant of ClampConfidence with the upper bound only: min(1.0, c)
ClampConfidenceUpperOnly(c) == PyMin(Num(1), c)

\* line 172
ClampConfidence(c) == PyMin(Num(1), PyMax(Num(0), c))

\* lines 149-152: `if not json_match: raise ValueError(..)`, else the span
GroupOrRaise(json_match) ==
    IF json_match = {} THEN Raise("ValueError: No JSON found in response")
    ELSE Return(CHOOSE s \in json_match : TRUE)

\* a variant of ParsedAnalysis that reads description and recommendations
\* with `data.get(key) or default`, so that an empty value is replaced too
ParsedAnalysisOrDefault(data) ==
    [tier1 |-> NormalizeTier(Get(data, "tier1", <<>>)),
     tier2 |-> NormalizeTier(Get(data, "tier2", <<>>)),
     description |->
         IF Get(data, "description", "") = "" THEN DefaultDescription
         ELSE data["description"],
     recommendations |->
         IF Get(data, "recommendations", <<>>) = <<>>
         THEN DefaultRecommendations ELSE data["recommendations"],
     confidence |->
         ClampConfidence(Get(data, "confidence", DefaultConfidence))]

\* lines 155-173, from the loaded object on
ParsedAnalysis(data) ==
    [tier1 |-> NormalizeTier(Get(data, "tier1", <<>>)),
     tier2 |-> NormalizeTier(Get(data, "tier2", <<>>)),
     description |-> Get(data, "description", DefaultDescription),
     recommendations |->
         Get(data, "recommendations", DefaultRecommendations),
     confidence |->
         ClampConfidence(Get(data, "confidence", DefaultConfidence))]

parse_gemini_response(response_text) ==
    Bind(GroupOrRaise(re_search(response_text)), LAMBDA json_str :
    Bind(json_loads(json_str), LAMBDA data :
    Return(ParsedAnalysis(data))))

----------------------------------------------------------------------------
(* Inputs of the model: what the vendor may answer *)

\* numeric tier values of the vendor JSON
Vals == {Num(k) : k \in -1..MaxVal}

\* a tier sub-object: every key of the response model or only `few` of
\* them, where the key `special` carries one value and all other keys
\* another; or no key at all or the keys and an unknown one, all with the
\* same value
TierSamples(keys, special, few) ==
    {[k \in D |-> IF k = special THEN a ELSE b] :
        D \in {keys, few}, a \in Vals, b \in Vals}
    \cup {[k \in D |-> a] : D \in {{}, keys \cup {"other"}}, a \in Vals}

Tier1Samples == TierSamples(Tier1Keys, "malignant", {"malignant", "benign"})

Tier2Samples == TierSamples(Tier2Keys, "melanoma", {"melanoma", "bcc"})

DescriptionSamples == {"", "Irregular pigmented lesion."}

RecommendationSamples ==
    {<<>>, <<"See a dermatologist.", "Use sunscreen.", "Monitor changes.">>}

\* -5, 0, 0.5, 1, 1.5, 50
ConfidenceSamples ==
    {Num(-5), Num(0), Rat(1, 2), Num(1), Rat(3, 2), Num(50)}

\* Optional[T] over a sample set
Opt(S) == {{}} \cup {{x} : x \in S}

\* the JSON object holding exactly the fields that are given
Doc(t1, t2, de, re, co) ==
    LET given == {f \in {<<"tier1", t1>>, <<"tier2", t2>>,
                         <<"description", de>>, <<"recommendations", re>>,
                         <<"confidence", co>>} : f[2] # {}}
    IN  [k \in {f[1] : f \in given} |->
            LET f == CHOOSE g \in given : g[1] = k
            IN  CHOOSE v \in f[2] : TRUE]

----------------------------------------------------------------------------
(* get_fallback_analysis *)

\* the arguments of the random.uniform calls, lines 181-185 and 191-200
Tier1Ranges ==
    [fungal       |-> <<Rat(5, 100),  Rat(15, 100)>>,
     inflammatory |-> <<Rat(10, 100), Rat(25, 100)>>,
     normal       |-> <<Rat(5, 100),  Rat(20, 100)>>,
     malignant    |-> <<Rat(10, 100), Rat(35, 100)>>,
     benign       |-> <<Rat(20, 100), Rat(40, 100)>>]

Tier2Ranges ==
    [melanoma            |-> <<Rat(5, 100), Rat(25, 100)>>,
     bcc                 |-> <<Rat(5, 100), Rat(20, 100)>>,
     eczema              |-> <<Rat(8, 100), Rat(18, 100)>>,
     atopicDermatitis    |-> <<Rat(3, 100), Rat(10, 100)>>,
     melanocyticNevi     |-> <<Rat(8, 100), Rat(15, 100)>>,
     bkl                 |-> <<Rat(5, 100), Rat(12, 100)>>,
     psoriasis           |-> <<Rat(2, 100), Rat(8, 100)>>,
     seborrheicKeratoses |-> <<Rat(3, 100), Rat(10, 100)>>,
     tinea               |-> <<Rat(2, 100), Rat(6, 100)>>,
     warts               |-> <<Rat(1, 100), Rat(5, 100)>>]

\* random.uniform(a, b) returns a value of [a, b]: the model draws the two
\* ends and the middle
random_uniform(range) ==
    <<range[1], RatDiv(RatAdd(range[1], range[2]), Num(2)), range[2]>>

FallbackDescription ==
    "Image analysis complete. This is a simulated result for demonstration purposes."

FallbackRecommendations ==
    <<"Schedule an appointment with a dermatologist for professional evaluation",
      "Monitor the lesion for any changes in size, shape, or color",
      "Take regular photos to track progression over time",
      "Protect the area from excessive sun exposure">>

FallbackConfidence == Rat(75, 100)

\* `{k: v / total for k, v in raw.items()}`, a ZeroDivisionError when the
\* total is zero
DivideRaw(raw, total) ==
    IF total.n = 0 THEN Raise("ZeroDivisionError")
    ELSE Return(DivideAll(raw, total))

NormalizeRaw(raw) == DivideRaw(raw, PySum(raw))

\* a variant of get_fallback_analysis that divides the tier2 values by the
\* total of tier1
get_fallback_analysis_one_total(draw) ==
    Bind(NormalizeRaw(draw.tier1), LAMBDA tier1 :
    Bind(DivideRaw(draw.tier2, PySum(draw.tier1)), LAMBDA tier2 :
    Return([tier1 |-> tier1,
            tier2 |-> tier2,
            description |-> FallbackDescription,
            recommendations |-> FallbackRecommendations,
            confidence |-> FallbackConfidence])))

\* draw.tier1 and draw.tier2 are the values the random source returned
get_fallback_analysis(draw) ==
    Bind(NormalizeRaw(draw.tier1), LAMBDA tier1 :
    Bind(NormalizeRaw(draw.tier2), LAMBDA tier2 :
    Return([tier1 |-> tier1,
            tier2 |-> tier2,
            description |-> FallbackDescription,
            recommendations |-> FallbackRecommendations,
            confidence |-> FallbackConfidence])))

\* the draws of one tier in which every category sits at the same point of
\* its range, except at most one category
DrawSamples(ranges) ==
    {[k \in DOMAIN ranges |->
        IF k = odd THEN random_uniform(ranges[k])[i]
        ELSE random_uniform(ranges[k])[j]] :
        odd \in DOMAIN ranges, i \in 1..3, j \in 1..3}

FallbackDraws ==
    [tier1 : DrawSamples(Tier1Ranges), tier2 : DrawSamples(Tier2Ranges)]

\* the draws a request is answered with: every category at the low end, or
\* every category at the high end
RequestDraws ==
    {[tier1 |-> [k \in Tier1Keys |-> random_uniform(Tier1Ranges[k])[i]],
      tier2 |-> [k \in Tier2Keys |-> random_uniform(Tier2Ranges[k])[i]]] :
        i \in {1, 3}}

----------------------------------------------------------------------------
(* base64 *)

B64Alphabet ==
    <<"A", "B", "C", "D", "E", "F", "G", "H", "I", "J", "K", "L", "M",
      "N", "O", "P", "Q", "R", "S", "T", "U", "V", "W", "X", "Y", "Z",
      "a", "b", "c", "d", "e", "f", "g", "h", "i", "j", "k", "l", "m",
      "n", "o", "p", "q", "r", "s", "t", "u", "v", "w", "x", "y", "z",
      "0", "1", "2", "3", "4", "5", "6", "7", "8", "9", "+", "/">>

B64Char(v) == B64Alphabet[v + 1]

\* the decoding table: the value of each character of the alphabet
B64Table ==
    [c \in {B64Alphabet[i] : i \in 1..64} |->
        (CHOOSE i \in 1..64 : B64Alphabet[i] = c) - 1]

B64Value(c) == B64Table[c]

IsB64Char(c) == c \in DOMAIN B64Table

\* base64.b64encode(contents).decode("utf-8"): three bytes become four
\* characters, the last group is padded with "="
RECURSIVE b64encode(_)
b64encode(b) ==
    IF Len(b) = 0 THEN <<>>
    ELSE IF Len(b) = 1 THEN
        <<B64Char(b[1] \div 4), B64Char((b[1] % 4) * 16), "=", "=">>
    ELSE IF Len(b) = 2 THEN
        <<B64Char(b[1] \div 4),
          B64Char((b[1] % 4) * 16 + b[2] \div 16),
          B64Char((b[2] % 16) * 4), "=">>
    ELSE
        <<B64Char(b[1] \div 4),
          B64Char((b[1] % 4) * 16 + b[2] \div 16),
          B64Char((b[2] % 16) * 4 + b[3] \div 64),
          B64Char(b[3] % 64)>> \o b64encode(SubSeq(b, 4, Len(b)))

\* base64.b64decode(s) in its default, non-validating mode: characters
\* outside the alphabet are skipped, a complete pad sequence ends the data,
\* an incomplete last group raises binascii.Error
RECURSIVE B64DecodeFrom(_, _, _, _, _, _)
B64DecodeFrom(s, i, quad_pos, leftchar, pads, out) ==
    IF i > Len(s) THEN
        IF quad_pos # 0 THEN Raise("binascii.Error") ELSE Return(out)
    ELSE IF s[i] = "=" THEN
        IF quad_pos >= 2 /\ quad_pos + pads + 1 >= 4 THEN Return(out)
        ELSE B64DecodeFrom(s, i + 1, quad_pos, leftchar,
                           IF quad_pos >= 2 THEN pads + 1 ELSE pads, out)
    ELSE IF ~IsB64Char(s[i]) THEN
        B64DecodeFrom(s, i + 1, quad_pos, leftchar, pads, out)
    ELSE LET v == B64Value(s[i])
         IN  CASE quad_pos = 0 ->
                    B64DecodeFrom(s, i + 1, 1, v, 0, out)
               [] quad_pos = 1 ->
                    B64DecodeFrom(s, i + 1, 2, v % 16, 0,
                                  Append(out, leftchar * 4 + v \div 16))
               [] quad_pos = 2 ->
                    B64DecodeFrom(s, i + 1, 3, v % 4, 0,
                                  Append(out, leftchar * 16 + v \div 4))
               [] OTHER ->
                    B64DecodeFrom(s, i + 1, 0, 0, 0,
                                  Append(out, leftchar * 64 + v))

b64decode(s) == B64DecodeFrom(s, 1, 0, 0, 0, <<>>)

\* str.split(","): the pieces between the commas
RECURSIVE Split(_)
Split(s) ==
    LET commas == {i \in 1..Len(s) : s[i] = ","}
    IN  IF commas = {} THEN <<s>>
        ELSE LET i == CHOOSE x \in commas : \A y \in commas : x <= y
             IN  <<SubSeq(s, 1, i - 1)>> \o Split(SubSeq(s, i + 1, Len(s)))

\* lines 255-257
StripDataUrlPrefix(image_data) ==
    IF \E i \in 1..Len(image_data) : image_data[i] = ","
    THEN Split(image_data)[2]
    ELSE image_data

----------------------------------------------------------------------------
(* Configuration and prompt *)

GEMINI_MODEL == "gemini-2.0-flash"

\* a str or None is truthy unless it is None or empty
Truthy(opt) == opt # {} /\ opt # {""}

\* `a or b`
PyOr(a, b) == IF Truthy(a) THEN a ELSE b

\* os.getenv("GOOGLE_GEMINI_API_KEY") or os.getenv("GEMINI_API_KEY")
ApiKey(e) == PyOr(e.GOOGLE_GEMINI_API_KEY, e.GEMINI_API_KEY)

\* a variant of configure_gemini without the `if api_key` test: a model is
\* configured whenever the SDK is importable
configure_gemini_any_key(e, sdk) ==
    IF sdk THEN {[api_key |-> ApiKey(e), model_name |-> GEMINI_MODEL]} ELSE {}

\* the model handle, or None
configure_gemini(e, sdk) ==
    LET api_key == ApiKey(e)
    IN  IF ~Truthy(api_key) THEN {}
        ELSE IF sdk THEN {[api_key |-> api_key, model_name |-> GEMINI_MODEL]}
        ELSE {}

\* the instruction line of each supported language; the name of the language
\* in its own script, which follows in parentheses in the source, is left out
language_instructions ==
    [en |-> "Respond in English.",
     hi |-> "Respond in Hindi.",
     ta |-> "Respond in Tamil.",
     te |-> "Respond in Telugu.",
     bn |-> "Respond in Bengali.",
     mr |-> "Respond in Marathi."]

\* the f-string: its fixed head, the language line, its fixed body
create_analysis_prompt(language) ==
    <<"You are a dermatological AI assistant analyzing a skin lesion image.",
      Get(language_instructions, language, language_instructions["en"]),
      "Analyze this skin image and provide a detailed assessment in JSON format">>

----------------------------------------------------------------------------
(* The handlers *)

\* a variant of the response models whose fields default to 0.0, so that a
\* missing key passes validation
TierResultsWithDefaults(fields, tier) ==
    Return([k \in fields |-> Get(tier, k, Num(0))])

\* Tier1Results(**tier) and Tier2Results(**tier): every declared field is
\* required, an unknown key is ignored
TierResults(fields, tier) ==
    IF fields \subseteq DOMAIN tier
    THEN Return([k \in fields |-> tier[k]])
    ELSE Raise("ValidationError")

Tier1Results(tier) == TierResults(Tier1Keys, tier)

Tier2Results(tier) == TierResults(Tier2Keys, tier)

DemoSuffix == " (Demo mode - Gemini API not configured)"

\* d[key], a KeyError when the key is missing
GetItem(d, key) == IF key \in DOMAIN d THEN Return(d[key]) ELSE Raise("KeyError")

\* AnalysisResponse(success=True, tier1=Tier1Results(..), tier2=.., ..): the
\* arguments are evaluated in order, so a tier that fails validation raises
\* before analysis["tier1"]["malignant"] is read
AnalysisResponse(analysis, description, error) ==
    Bind(Tier1Results(analysis.tier1), LAMBDA tier1 :
    Bind(Tier2Results(analysis.tier2), LAMBDA tier2 :
    Bind(GetItem(analysis.tier1, "malignant"), LAMBDA ai_malignant_prob :
    Return([success |-> TRUE,
            tier1 |-> tier1,
            tier2 |-> tier2,
            ai_malignant_prob |-> ai_malignant_prob,
            description |-> description,
            recommendations |-> analysis.recommendations,
            confidence |-> analysis.confidence,
            error |-> error]))))

\* lines 243-252: the answer when no model is configured
DemoResponse(draw) ==
    Bind(get_fallback_analysis(draw), LAMBDA analysis :
    AnalysisResponse(analysis, <<analysis.description, DemoSuffix>>, {}))

\* lines 254-271: what is handed to model.generate_content, or the
\* exception raised before the call
VendorCallArgs(req) ==
    Bind(b64decode(StripDataUrlPrefix(req.image_base64)), LAMBDA image_bytes :
    Return([prompt |-> create_analysis_prompt(req.language),
            mime_type |-> "image/jpeg",
            data |-> image_bytes]))

\* model.generate_content(..).text, or the exception of a failed call
generate_content(outcome) ==
    IF outcome.raises THEN Raise("VendorCallFailed") ELSE Return(outcome.text)

\* lines 273-284: the answer built from the vendor's text
VendorResponse(text) ==
    Bind(parse_gemini_response(text), LAMBDA analysis :
    AnalysisResponse(analysis, <<analysis.description>>, {}))

\* a variant of the except clause that leaves the error field out
ExceptResponseSilent(e, draw) ==
    Bind(get_fallback_analysis(draw), LAMBDA analysis :
    AnalysisResponse(analysis, <<analysis.description>>, {}))

\* lines 286-298: the answer of the except clause
\* (`e` stands for str(e): the model names the exception, the source
\* interpolates its message)
ExceptResponse(e, draw) ==
    Bind(get_fallback_analysis(draw), LAMBDA analysis :
    AnalysisResponse(analysis, <<analysis.description>>,
                     {<<"Using fallback: ", e>>}))

Returned(body, stmt) == Return([body |-> body, branch |-> stmt])

\* the body of the try block: the response and the return statement that
\* built it, or the exception raised
TryBlock(e, sdk, req, outcome, draw) ==
    IF configure_gemini(e, sdk) = {} THEN
        Bind(DemoResponse(draw), LAMBDA body : Returned(body, "demo"))
    ELSE
        Bind(VendorCallArgs(req), LAMBDA args :
        Bind(generate_content(outcome), LAMBDA text :
        Bind(VendorResponse(text), LAMBDA body : Returned(body, "vendor"))))

\* what the framework sends: the returned model with status 200, or status
\* 500 for an exception that leaves the handler
HttpResponse(r) ==
    IF Raised(r) THEN [status |-> 500, body |-> {}, branch |-> "raise"]
    ELSE [status |-> 200, body |-> {ValueOf(r).body},
          branch |-> ValueOf(r).branch]

\* a variant of the handler without the except clause
analyze_skin_lesion_no_except(e, sdk, req, outcome, draw) ==
    HttpResponse(TryBlock(e, sdk, req, outcome, draw))

\* POST /analyze. `outcome` is what model.generate_content does if it is
\* called, `draw` what the random source returns if it is consulted.
analyze_skin_lesion(e, sdk, req, outcome, draw) ==
    HttpResponse(
        Catch(TryBlock(e, sdk, req, outcome, draw), LAMBDA exc :
              Bind(ExceptResponse(exc, draw), LAMBDA body :
                   Returned(body, "except"))))

\* whether the handler reaches model.generate_content
VendorCalled(e, sdk, req) ==
    configure_gemini(e, sdk) # {} /\ ~Raised(VendorCallArgs(req))

\* GET /
root(e) ==
    [status |-> 200,
     body |-> {[status |-> "healthy",
                service |-> "DermaVision AI Backend",
                gemini_configured |-> Truthy(ApiKey(e))]},
     branch |-> "root"]

\* a variant of the upload handler that encodes with the URL-safe alphabet
\* ("-" and "_" for "+" and "/")
UploadRequestUrlSafe(contents, language) ==
    [image_base64 |->
         [i \in 1..Len(b64encode(contents)) |->
             IF b64encode(contents)[i] = "+" THEN "-"
             ELSE IF b64encode(contents)[i] = "/" THEN "_"
             ELSE b64encode(contents)[i]],
     language |-> language]

\* POST /analyze-upload builds this request from the file and the language
UploadRequest(contents, language) ==
    [image_base64 |-> b64encode(contents), language |-> language]

----------------------------------------------------------------------------
(* Inputs of the model: texts, requests, environments *)

BaseTier1 == [k \in Tier1Keys |-> Num(1)]

BaseTier2 == [k \in Tier2Keys |-> Num(1)]

BaseDescription == "Irregular pigmented lesion."

BaseRecommendations ==
    <<"See a dermatologist.", "Use sunscreen.", "Monitor changes.">>

BaseConfidence == Rat(1, 2)

BaseDoc ==
    Doc({BaseTier1}, {BaseTier2}, {BaseDescription}, {BaseRecommendations},
        {BaseConfidence})

\* objects whose tiers vary
TierDocs(tier1s, tier2s) ==
    {Doc(t1, t2, {BaseDescription}, {BaseRecommendations}, {BaseConfidence}) :
        t1 \in tier1s, t2 \in tier2s}

\* objects whose description, recommendations and confidence vary
RestDocs ==
    {Doc({BaseTier1}, {BaseTier2}, de, re, co) :
        de \in Opt(DescriptionSamples), re \in Opt(RecommendationSamples),
        co \in Opt(ConfidenceSamples)}

\* the texts around the objects: the object alone, prose around it, and the
\* texts that hold no object or more than one
TextsOf(docs) ==
    {<<Obj(d)>> : d \in docs}
    \cup {<<Prose, Obj(d), Prose>> : d \in {BaseDoc, Doc({}, {}, {}, {}, {})}}
    \cup {<<>>, <<Prose>>, <<LBrace>>, <<RBrace, Prose, LBrace>>,
          <<LBrace, Prose, RBrace>>, <<LBrace, RBrace>>,
          <<Obj(BaseDoc), Prose, Obj(BaseDoc)>>, <<LBrace, Obj(BaseDoc)>>,
          <<Prose, RBrace, Obj(BaseDoc)>>}

\* the texts parse_gemini_response is applied to directly
ParseTexts ==
    TextsOf(TierDocs(Opt(Tier1Samples), Opt(Tier2Samples)) \cup RestDocs)

\* the texts the vendor answers a request with
RequestTexts ==
    TextsOf(TierDocs(Opt(Tier1Samples), {{BaseTier2}})
            \cup TierDocs({{BaseTier1}}, Opt(Tier2Samples))
            \cup {Doc({BaseTier1}, {BaseTier2}, {}, {}, {})})

VendorOutcomes ==
    {[raises |-> TRUE, text |-> <<>>]}
    \cup {[raises |-> FALSE, text |-> t] : t \in RequestTexts}

\* the bytes of the sample files: ",", 0xFF, 0x00, 0xFB
BytePattern == <<44, 255, 0, 251>>

\* the files of up to MaxFileLen bytes that run through the pattern from any
\* of its positions
Files ==
    {[i \in 1..n |-> BytePattern[((i + k) % Len(BytePattern)) + 1]] :
        n \in 0..MaxFileLen, k \in 1..Len(BytePattern)}

\* a supported language and an unsupported one
Languages == {"hi", "fr"}

DataUrlPrefix ==
    <<"d", "a", "t", "a", ":", "i", "m", "a", "g", "e", "/", "j", "p", "e",
      "g", ";", "b", "a", "s", "e", "6", "4", ",">>

\* image_base64 of POST /analyze: the encoding of a file, the same as a
\* data URL, and strings that are no base64
ImageSamples ==
    {b64encode(f) : f \in Files}
    \cup {DataUrlPrefix \o b64encode(f) : f \in {g \in Files : Len(g) = 1}}
    \cup {<<"A">>, <<"A", "A">>, <<",">>, <<"!", "!">>,
          <<"/", "w", "=", "=", ",", "A">>}

EnvSamples ==
    [GOOGLE_GEMINI_API_KEY : Opt({"", "key-1"}),
     GEMINI_API_KEY : Opt({"", "key-2"})]

----------------------------------------------------------------------------
(* The service *)

NoRequest ==
    [endpoint |-> "none", image_base64 |-> <<>>, language |-> "",
     file |-> <<>>]

NoVendor == [calls |-> {}, outcome |-> {}]

NoPure == [fn |-> "none", arg |-> <<>>, result |-> {}]

Init ==
    /\ env \in EnvSamples
    /\ genai \in BOOLEAN
    /\ request = NoRequest
    /\ vendor = NoVendor
    /\ response = [status |-> 0, body |-> {}]
    /\ branch = "none"
    /\ pure = NoPure

\* the handler answers `req` when the vendor does `outcome` and the random
\* source returns `draw`
Answer(endpoint, req, file, exchange, r) ==
    /\ request' = [endpoint |-> endpoint,
                   image_base64 |-> req.image_base64,
                   language |-> req.language, file |-> file]
    /\ vendor' = exchange
    /\ response' = [status |-> r.status, body |-> r.body]
    /\ branch' = r.branch
    /\ UNCHANGED <<env, genai, pure>>

NotCalled == [raises |-> TRUE, text |-> <<>>]

Handle(endpoint, req, file) ==
    \E draw \in RequestDraws :
        \/ /\ ~VendorCalled(env, genai, req)
           /\ \E r \in {analyze_skin_lesion(env, genai, req, NotCalled, draw)} :
                  Answer(endpoint, req, file, NoVendor, r)
        \/ /\ VendorCalled(env, genai, req)
           /\ \E outcome \in VendorOutcomes :
              \E r \in {analyze_skin_lesion(env, genai, req, outcome, draw)} :
                  Answer(endpoint, req, file,
                         [calls |-> {ValueOf(VendorCallArgs(req))},
                          outcome |-> {outcome}], r)

Root ==
    /\ request = NoRequest
    /\ Answer("/", NoRequest, <<>>, NoVendor, root(env))

Analyze ==
    /\ request = NoRequest
    /\ \E image_base64 \in ImageSamples, language \in Languages :
        Handle("/analyze",
               [image_base64 |-> image_base64, language |-> language], <<>>)

AnalyzeUpload ==
    /\ request = NoRequest
    /\ \E contents \in Files, language \in Languages :
        Handle("/analyze-upload", UploadRequest(contents, language), contents)

\* the response is serialised and sent, and nothing of the request is kept
Deliver ==
    /\ request # NoRequest
    /\ request' = NoRequest
    /\ vendor' = NoVendor
    /\ response' = [status |-> 0, body |-> {}]
    /\ branch' = "none"
    /\ UNCHANGED <<env, genai, pure>>

Next == Root \/ Analyze \/ AnalyzeUpload \/ Deliver

Spec == Init /\ [][Next]_vars

----------------------------------------------------------------------------
(* parse_gemini_response and get_fallback_analysis applied on their own *)

Idle ==
    /\ env = [GOOGLE_GEMINI_API_KEY |-> {}, GEMINI_API_KEY |-> {}]
    /\ genai = TRUE
    /\ request = NoRequest
    /\ vendor = NoVendor
    /\ response = [status |-> 0, body |-> {}]
    /\ branch = "none"

ParseCalls ==
    {[fn |-> "parse_gemini_response", arg |-> t, result |-> {}] :
        t \in ParseTexts}

FallbackCalls ==
    {[fn |-> "get_fallback_analysis", arg |-> d, result |-> {}] :
        d \in FallbackDraws}

InitPure ==
    /\ Idle
    /\ pure \in ParseCalls \cup FallbackCalls

ParseCall ==
    /\ pure.fn = "parse_gemini_response"
    /\ pure.result = {}
    /\ pure' = [pure EXCEPT !.result = {parse_gemini_response(pure.arg)}]
    /\ UNCHANGED <<env, genai, request, vendor, response, branch>>

FallbackCall ==
    /\ pure.fn = "get_fallback_analysis"
    /\ pure.result = {}
    /\ pure' = [pure EXCEPT !.result = {get_fallback_analysis(pure.arg)}]
    /\ UNCHANGED <<env, genai, request, vendor, response, branch>>

NextPure == ParseCall \/ FallbackCall

SpecPure == InitPure /\ [][NextPure]_vars

----------------------------------------------------------------------------
(* Properties *)

\* a POST /analyze or POST /analyze-upload request has been answered
Answered == request.endpoint \in {"/analyze", "/analyze-upload"}

Body == CHOOSE b \in response.body : TRUE

NoCredential ==
    env.GOOGLE_GEMINI_API_KEY = {} /\ env.GEMINI_API_KEY = {}

\* what model.generate_content did, when it was called
Outcome == CHOOSE o \in vendor.outcome : TRUE

VendorAnswered == vendor.outcome # {} /\ ~Outcome.raises

InUnitInterval(x) == RatLeq(Num(0), x) /\ RatLeq(x, Num(1))

InsideUnitInterval(x) == RatLt(Num(0), x) /\ RatLt(x, Num(1))

IsFallbackBody(b) ==
    /\ b.recommendations = FallbackRecommendations
    /\ b.confidence = Rat(3, 4)
    /\ b.description[1] = FallbackDescription

\* C1: every POST /analyze (and /analyze-upload) request is answered with
\* status 200 and an AnalysisResponse whose success is true, whatever the
\* credentials, the image, the vendor's outcome and the vendor's text; no
\* exception leaves the handler.
C1_AlwaysSuccess ==
    Answered =>
        /\ response.status = 200
        /\ response.body # {}
        /\ Body.success = TRUE
        /\ DOMAIN Body.tier1 = Tier1Keys
        /\ DOMAIN Body.tier2 = Tier2Keys

\* a base64 decode failure was absorbed into a successful fallback response
C1_Witness ==
    /\ Answered
    /\ response.status = 200
    /\ Body.success = TRUE
    /\ Body.error = {<<"Using fallback: ", "binascii.Error">>}

\* C2: the error field is non-null exactly on the path through the except
\* clause; a failed vendor call, a text with no brace-delimited span and a
\* span that is not valid JSON each give the fallback result with a non-null
\* error; the vendor path and the demo path give error = null.
C2_ErrorIffExceptPath ==
    (Answered /\ response.status = 200) =>
        /\ Body.error # {} <=> branch = "except"
        /\ branch \in {"vendor", "demo"} => Body.error = {}
        /\ branch = "except" => IsFallbackBody(Body)
        /\ (vendor.outcome # {} /\ Outcome.raises) => Body.error # {}
        /\ (VendorAnswered /\ re_search(Outcome.text) = {}) =>
               Body.error # {}
        /\ (VendorAnswered /\ re_search(Outcome.text) # {}
              /\ Raised(json_loads(CHOOSE sp \in re_search(Outcome.text) :
                                       TRUE))) =>
               Body.error # {}

\* a span that is not valid JSON gave a fallback response with an error
C2_Witness ==
    /\ Answered
    /\ vendor.outcome = {[raises |-> FALSE, text |-> <<LBrace, Prose, RBrace>>]}
    /\ Body.error = {<<"Using fallback: ", "JSONDecodeError">>}

\* C3: with neither credential variable set, GET / reports
\* gemini_configured = false and POST /analyze never reaches the vendor and
\* returns the fallback result with success = true, error = null and a
\* description ending in the demo-mode suffix.
C3_DemoMode ==
    NoCredential =>
        /\ request.endpoint = "/" => Body.gemini_configured = FALSE
        /\ Answered =>
            /\ vendor = NoVendor
            /\ branch = "demo"
            /\ response.status = 200
            /\ Body.success = TRUE
            /\ Body.error = {}
            /\ Body.description = <<FallbackDescription, DemoSuffix>>
            /\ Body.description[Len(Body.description)] =
                   " (Demo mode - Gemini API not configured)"

\* a request whose image is no base64 was answered in demo mode: the image
\* was not decoded
C3_Witness ==
    /\ NoCredential
    /\ genai = TRUE
    /\ request.endpoint = "/analyze"
    /\ request.image_base64 = <<"A">>
    /\ branch = "demo"
    /\ Body.error = {}

\* parse_gemini_response was called and returned
ParseReturned ==
    /\ pure.fn = "parse_gemini_response"
    /\ pure.result # {}
    /\ ~Raised(CHOOSE r \in pure.result : TRUE)

Parsed == ValueOf(CHOOSE r \in pure.result : TRUE)

\* the object json.loads gave for the text parse_gemini_response was called on
InputData ==
    ValueOf(json_loads(CHOOSE sp \in re_search(pure.arg) : TRUE))

InputTier(name) == Get(InputData, name, <<>>)

\* the returned tier has the keys of the input tier, sums to 1, and each
\* value is the input value divided by the input total
TierNormalized(name) ==
    /\ DOMAIN Parsed[name] = DOMAIN InputTier(name)
    /\ PySum(Parsed[name]) = Num(1)
    /\ \A k \in DOMAIN Parsed[name] :
           Parsed[name][k] = RatDiv(InputTier(name)[k], PySum(InputTier(name)))

\* C4 as stated: for every input with non-empty numeric tier1 and tier2
\* sub-objects, the tier1 values and the tier2 values returned by
\* parse_gemini_response each sum to 1.
C4_TierSumsToOne ==
    ParseReturned =>
        \A name \in {"tier1", "tier2"} :
            DOMAIN InputTier(name) # {} => TierNormalized(name)

\* C4: for every input whose tier sub-object is non-empty and whose values do
\* not sum to zero, the returned values of that tier sum to 1 and each is the
\* input value divided by the input total; a tier whose values sum to zero
\* is returned unchanged.
C4_TierSumsToOneWhenTotalNonZero ==
    ParseReturned =>
        \A name \in {"tier1", "tier2"} :
            /\ (DOMAIN InputTier(name) # {} /\ PySum(InputTier(name)).n # 0)
                   => TierNormalized(name)
            /\ PySum(InputTier(name)).n = 0
                   => Parsed[name] = InputTier(name)

\* a two-key tier1 with values 2 and 2 came back as 1/2 and 1/2
C4_Witness ==
    /\ ParseReturned
    /\ InputTier("tier1") = [k \in {"malignant", "benign"} |-> Num(2)]
    /\ Parsed.tier1 = [k \in {"malignant", "benign"} |-> Rat(1, 2)]

\* C5 as stated: every tier value of every response lies in [0, 1], also
\* when the vendor's object carries negative numbers.
C5_TierValuesInUnitInterval ==
    (Answered /\ response.status = 200) =>
        /\ \A k \in DOMAIN Body.tier1 : InUnitInterval(Body.tier1[k])
        /\ \A k \in DOMAIN Body.tier2 : InUnitInterval(Body.tier2[k])
        /\ InUnitInterval(Body.ai_malignant_prob)

\* C6: the confidence returned by parse_gemini_response lies in [0, 1]: an
\* input above 1 gives 1, an input below 0 gives 0, an input inside the
\* interval is kept, a missing one gives 0.7; the fallback gives 0.75.
C6_ConfidenceClamped ==
    /\ ParseReturned =>
        /\ InUnitInterval(Parsed.confidence)
        /\ "confidence" \notin DOMAIN InputData =>
               Parsed.confidence = Rat(7, 10)
        /\ "confidence" \in DOMAIN InputData =>
            /\ RatLt(Num(1), InputData["confidence"]) =>
                   Parsed.confidence = Num(1)
            /\ RatLt(InputData["confidence"], Num(0)) =>
                   Parsed.confidence = Num(0)
            /\ InUnitInterval(InputData["confidence"]) =>
                   Parsed.confidence = InputData["confidence"]
    /\ (pure.fn = "get_fallback_analysis" /\ pure.result # {}) =>
           /\ ~Raised(CHOOSE r \in pure.result : TRUE)
           /\ Parsed.confidence = Rat(3, 4)

\* a confidence of -5 came back as 0
C6_Witness ==
    /\ ParseReturned
    /\ "confidence" \in DOMAIN InputData
    /\ InputData["confidence"] = Num(-5)
    /\ Parsed.confidence = Num(0)

C8_FallbackDistribution ==
    (pure.fn = "get_fallback_analysis" /\ pure.result # {}) =>
        /\ ~Raised(CHOOSE r \in pure.result : TRUE)
        /\ DOMAIN Parsed.tier1 = Tier1Keys
        /\ DOMAIN Parsed.tier2 = Tier2Keys
        /\ \A name \in {"tier1", "tier2"} :
            /\ PySum(Parsed[name]) = Num(1)
            /\ \A k \in DOMAIN Parsed[name] :
                /\ InsideUnitInterval(Parsed[name][k])
                /\ Parsed[name][k] =
                       RatDiv(pure.arg[name][k], PySum(pure.arg[name]))
        /\ Parsed.confidence = Rat(3, 4)
        /\ Len(Parsed.recommendations) = 4
        /\ Parsed.recommendations = FallbackRecommendations
        /\ Parsed.description = FallbackDescription

\* the draw with every value at the low end of its range except a malignant
\* value at the high end was normalised
C8_Witness ==
    /\ pure.fn = "get_fallback_analysis"
    /\ pure.result # {}
    /\ pure.arg.tier1 = [fungal |-> Rat(5, 100), inflammatory |-> Rat(10, 100),
                         normal |-> Rat(5, 100), malignant |-> Rat(35, 100),
                         benign |-> Rat(20, 100)]
    /\ Parsed.tier1["malignant"] = Rat(7, 15)
    /\ PySum(Parsed.tier2) = Num(1)

\* C9: POST /analyze-upload with a file of bytes B and language L is answered
\* as POST /analyze with image_base64 = base64(B) and language L is: the
\* encoding holds no comma, so no prefix is stripped, decoding it gives B
\* back, and when a model is configured the vendor receives the prompt for L
\* and the bytes B.
C9_UploadEquivalence ==
    request.endpoint = "/analyze-upload" =>
        /\ request.image_base64 = b64encode(request.file)
        /\ \A i \in 1..Len(request.image_base64) :
               request.image_base64[i] # ","
        /\ StripDataUrlPrefix(request.image_base64) = request.image_base64
        /\ b64decode(request.image_base64) = Return(request.file)
        /\ configure_gemini(env, genai) # {} =>
               /\ vendor.calls =
                      {[prompt |-> create_analysis_prompt(request.language),
                        mime_type |-> "image/jpeg",
                        data |-> request.file]}
               /\ branch \in {"vendor", "except"}
        /\ configure_gemini(env, genai) = {} =>
               vendor = NoVendor /\ branch = "demo"

\* a file starting with the byte of a comma was uploaded with language "hi"
\* and reached the vendor
C9_Witness ==
    /\ request.endpoint = "/analyze-upload"
    /\ request.file = <<44, 255, 0>>
    /\ request.language = "hi"
    /\ vendor.calls # {}
    /\ branch = "vendor"

\* the vendor's text parsed into an analysis
VendorParsed ==
    VendorAnswered /\ ~Raised(parse_gemini_response(Outcome.text))

VendorAnalysis == ValueOf(parse_gemini_response(Outcome.text))

AllKeysPresent ==
    /\ Tier1Keys \subseteq DOMAIN VendorAnalysis.tier1
    /\ Tier2Keys \subseteq DOMAIN VendorAnalysis.tier2

\* C10: a response is built from the vendor's analysis only if its tier1 has
\* all five and its tier2 all ten keys of the response models; valid JSON
\* with a key missing is answered from the fallback with a non-null error;
\* ai_malignant_prob always equals the malignant value of the tier1 returned.
C10_VendorPathNeedsAllKeys ==
    (Answered /\ response.status = 200) =>
        /\ Body.ai_malignant_prob = Body.tier1["malignant"]
        /\ branch = "vendor" =>
            /\ VendorParsed
            /\ AllKeysPresent
            /\ \A k \in Tier1Keys : Body.tier1[k] = VendorAnalysis.tier1[k]
            /\ \A k \in Tier2Keys : Body.tier2[k] = VendorAnalysis.tier2[k]
            /\ Body.error = {}
        /\ (VendorParsed /\ ~AllKeysPresent) =>
            /\ branch = "except"
            /\ Body.error # {}
            /\ IsFallbackBody(Body)
        /\ (VendorParsed /\ AllKeysPresent) => branch = "vendor"

\* valid JSON whose tier2 is empty was answered from the fallback
C10_Witness ==
    /\ Answered
    /\ VendorParsed
    /\ DOMAIN VendorAnalysis.tier1 = Tier1Keys
    /\ DOMAIN VendorAnalysis.tier2 = {}
    /\ branch = "except"
    /\ Body.error = {<<"Using fallback: ", "ValidationError">>}

====
